---- MODULE Spec2Model ----
(***************************************************************************)
(* A model of the PostgreSQL adapter: lib/util.js (query compilation,      *)
(* schema compilation) and lib/adapter.js (the adapter's operations).      *)
(*                                                                         *)
(* JavaScript values are tagged records, so that values of different       *)
(* JavaScript types can be told apart:                                     *)
(*   Undefined, Null, Num(n), Bool(b), Str(s), Arr(a)                      *)
(* A Str holds its text as a sequence of one-character strings.            *)
(***************************************************************************)
EXTENDS Integers, Sequences, FiniteSets, TLC

VARIABLES
    op,           \* name of the operation that ran last ("none" initially)
    arg,          \* its arguments
    ret,          \* its outcome (return value, thrown error, callback, log)
    connections,  \* Adapter.connections: identity -> connection object
    pending,      \* registerConnection calls waiting for initializeConnection
    dbTables,     \* names of the tables that exist in the database
    lodash,       \* major version of the lodash the build resolves `_` to
    knexPools,    \* the driver pools Knex(...) created: pool -> its state
    teardown,     \* the teardown call whose destroy promises are outstanding
    transactions, \* the transactions knex.transaction opened: handle -> state
    commit,       \* the latest commitTransaction call
    update        \* the latest Adapter.update call

vars == <<op, arg, ret, connections, pending, dbTables, lodash, knexPools,
          teardown, transactions, commit, update>>

----------------------------------------------------------------------------
(* JavaScript values *)

Undefined == [t |-> "undefined"]
Null == [t |-> "null"]
Num(n) == [t |-> "number", n |-> n]
Bool(b) == [t |-> "boolean", b |-> b]
Str(s) == [t |-> "string", s |-> s]
Arr(a) == [t |-> "array", a |-> a]

\* !value
Falsy(v) ==
    \/ v.t = "undefined"
    \/ v.t = "null"
    \/ v.t = "number" /\ v.n = 0
    \/ v.t = "boolean" /\ v.b = FALSE
    \/ v.t = "string" /\ v.s = <<>>

\* all sequences over S of length 0..n
SeqsUpTo(S, n) == UNION {[1..k -> S] : k \in 0..n}

Min(a, b) == IF a < b THEN a ELSE b

Digits == {"0", "1", "2", "3", "4", "5", "6", "7", "8", "9"}

DigitValue(c) ==
    CASE c = "0" -> 0 [] c = "1" -> 1 [] c = "2" -> 2 [] c = "3" -> 3
      [] c = "4" -> 4 [] c = "5" -> 5 [] c = "6" -> 6 [] c = "7" -> 7
      [] c = "8" -> 8 [] c = "9" -> 9

DigitChar(d) ==
    CASE d = 0 -> "0" [] d = 1 -> "1" [] d = 2 -> "2" [] d = 3 -> "3"
      [] d = 4 -> "4" [] d = 5 -> "5" [] d = 6 -> "6" [] d = 7 -> "7"
      [] d = 8 -> "8" [] d = 9 -> "9"

\* the index after the run of digits that starts at i
RECURSIVE SkipDigits(_, _)
SkipDigits(s, i) ==
    IF i <= Len(s) /\ s[i] \in Digits THEN SkipDigits(s, i + 1) ELSE i

\* the number written by the digits s[i..j-1]
RECURSIVE DigitsValue(_, _, _)
DigitsValue(s, i, j) ==
    IF j <= i THEN 0
    ELSE DigitsValue(s, i, j - 1) * 10 + DigitValue(s[j - 1])

----------------------------------------------------------------------------
(* Util.toKnexRawQuery: sql.replace(/\$\d+/g, '?') *)

RECURSIVE RewriteFrom(_, _)
RewriteFrom(sql, i) ==
    IF i > Len(sql) THEN <<>>
    ELSE IF sql[i] = "$" /\ SkipDigits(sql, i + 1) > i + 1
         THEN <<"?">> \o RewriteFrom(sql, SkipDigits(sql, i + 1))
         ELSE <<sql[i]>> \o RewriteFrom(sql, i + 1)

toKnexRawQuery(sql) == RewriteFrom(sql, 1)

\* The numbers of the numbered placeholders $k of a query text, in order of
\* occurrence (what the text means to PostgreSQL before it is rewritten).
RECURSIVE PlaceholdersFrom(_, _)
PlaceholdersFrom(sql, i) ==
    IF i > Len(sql) THEN <<>>
    ELSE IF sql[i] = "$" /\ SkipDigits(sql, i + 1) > i + 1
         THEN <<DigitsValue(sql, i + 1, SkipDigits(sql, i + 1))>>
                \o PlaceholdersFrom(sql, SkipDigits(sql, i + 1))
         ELSE PlaceholdersFrom(sql, i + 1)

\* the positions of the positional placeholders '?' of a rewritten text
CountOf(c, s) == Cardinality({i \in DOMAIN s : s[i] = c})

----------------------------------------------------------------------------
(* JSON.parse / JSON.stringify on the texts castValues meets: arrays of     *)
(* unsigned integers, possibly nested.  ParseValue(s, i) parses one JSON    *)
(* value starting at s[i]: [ok, val, next].                                *)

ParseFail == [ok |-> FALSE, val |-> Undefined, next |-> 0]

RECURSIVE ParseValue(_, _), ParseElems(_, _, _)
ParseValue(s, i) ==
    IF i > Len(s) THEN ParseFail
    ELSE IF s[i] \in Digits
         THEN \* JSON forbids a leading zero on a number of several digits
              IF s[i] = "0" /\ SkipDigits(s, i) > i + 1 THEN ParseFail
              ELSE [ok |-> TRUE,
                    val |-> Num(DigitsValue(s, i, SkipDigits(s, i))),
                    next |-> SkipDigits(s, i)]
    ELSE IF s[i] = "["
         THEN IF i + 1 <= Len(s) /\ s[i + 1] = "]"
              THEN [ok |-> TRUE, val |-> Arr(<<>>), next |-> i + 2]
              ELSE ParseElems(s, i + 1, <<>>)
    ELSE ParseFail

\* the elements of an array after "[" or ",", acc holding those already read
ParseElems(s, i, acc) ==
    LET e == ParseValue(s, i) IN
    IF ~e.ok \/ e.next > Len(s) THEN ParseFail
    ELSE IF s[e.next] = "]"
         THEN [ok |-> TRUE, val |-> Arr(Append(acc, e.val)), next |-> e.next + 1]
    ELSE IF s[e.next] = ","
         THEN ParseElems(s, e.next + 1, Append(acc, e.val))
    ELSE ParseFail

\* JSON.parse(text): the value, or a SyntaxError
JSONparse(s) ==
    LET r == ParseValue(s, 1) IN
    IF r.ok /\ r.next = Len(s) + 1
    THEN [threw |-> FALSE, val |-> r.val]
    ELSE [threw |-> TRUE, val |-> Undefined]

\* decimal digits of a natural number
RECURSIVE NatText(_)
NatText(n) ==
    IF n < 10 THEN <<DigitChar(n)>>
    ELSE NatText(n \div 10) \o <<DigitChar(n % 10)>>

\* JSON.stringify of a number or of an array of such values
RECURSIVE JSONstringify(_), JoinTexts(_, _)
JSONstringify(v) ==
    IF v.t = "number" THEN NatText(v.n)
    ELSE <<"[">> \o JoinTexts(v.a, 1) \o <<"]">>

JoinTexts(a, i) ==
    IF i > Len(a) THEN <<>>
    ELSE JSONstringify(a[i])
           \o (IF i < Len(a) THEN <<",">> ELSE <<>>)
           \o JoinTexts(a, i + 1)

----------------------------------------------------------------------------
(* Util.castValues *)

\* the callback of _.map: one value
castValue(value) ==
    IF value.t = "string" /\ Len(value.s) > 0 /\ value.s[1] = "["
    THEN LET p == JSONparse(value.s) IN
         IF p.threw THEN [threw |-> TRUE, val |-> Undefined]
         ELSE IF p.val.t = "array" THEN [threw |-> FALSE, val |-> p.val]
         ELSE [threw |-> FALSE, val |-> value]
    ELSE [threw |-> FALSE, val |-> value]

\* _.map(values, ...): a SyntaxError of JSON.parse leaves castValues
castValues(values) ==
    IF \E i \in DOMAIN values : castValue(values[i]).threw
    THEN [threw |-> TRUE, val |-> <<>>]
    ELSE [threw |-> FALSE, val |-> [i \in DOMAIN values |-> castValue(values[i]).val]]

----------------------------------------------------------------------------
(* Objects.  A JavaScript object is a function from its own keys to values; *)
(* reading a key it does not have gives undefined.                         *)

Get(obj, key) == IF key \in DOMAIN obj THEN obj[key] ELSE Undefined

\* a string value whose text is an atom of the model (an identifier, a tag)
Name(s) == [t |-> "string", name |-> s]

\* an object value whose entries are kept in insertion order
Obj(entries) == [t |-> "object", entries |-> entries]

\* !value for every kind of value of the model
IsFalsy(v) ==
    IF v.t = "string" /\ "name" \in DOMAIN v THEN v.name = "" ELSE Falsy(v)

----------------------------------------------------------------------------
(* Util.buildOrderByClause.  options.sort is undefined or an object        *)
(* field -> direction; the fragment is the list of the terms that the      *)
(* code joins with ', '.                                                   *)

PG_MAX_INT == 2147483647

OrderByConstant == <<[k |-> "literal", text |-> "1"]>>

\* _.isEmpty(options.sort)
SortIsEmpty(sort) == sort.t # "object" \/ sort.entries = <<>>

\* a variant of the callback that marks every field 'desc': C5 must tell it
\* from the callback of the code
OrderByTokenAlwaysDesc(tableName, entry) ==
    [k |-> "column", table |-> tableName, field |-> entry.field,
     direction |-> "desc"]

\* the callback of _.map(options.sort, ...)
OrderByToken(tableName, entry) ==
    [k |-> "column", table |-> tableName, field |-> entry.field,
     direction |-> IF entry.dir = Num(1) THEN "" ELSE "desc"]

buildOrderByClause(tableName, options) ==
    IF SortIsEmpty(options.sort) THEN OrderByConstant
    ELSE [i \in DOMAIN options.sort.entries |->
              OrderByToken(tableName, options.sort.entries[i])]

----------------------------------------------------------------------------
(* Join aliases *)

getJoinAlias(join) ==
    IF join.alias # join.parentKey /\ join.removeParentKey = Bool(TRUE)
    THEN join.parentKey
    ELSE join.alias

\* `string + string`: the concatenation of two identifiers
Concat(a, b) == a \o b

getParentAlias(join) ==
    IF ~IsFalsy(join.junctionTable)
    THEN Concat(getJoinAlias(join), join.parent)
    ELSE join.parent

getSubqueryAlias(join) == Concat(getJoinAlias(join), join.child)

----------------------------------------------------------------------------
(* Util.buildSelectAggregationColumns *)

\* join.criteria || { }
JoinCriteria(join) ==
    IF join.criteria.t = "undefined"
    THEN [where |-> <<>>, sort |-> Undefined, limit |-> Undefined, skip |-> Undefined]
    ELSE join.criteria.c

\* x || d for a number-valued option
OrDefault(x, d) == IF IsFalsy(x) THEN d ELSE x.n

\* let start = (criteria.skip || 0) + 1
SliceStart(criteria) == OrDefault(criteria.skip, 0) + 1

\* let end = (criteria.limit || (this.PG_MAX_INT - start)) + start - 1
SliceEnd(criteria) ==
    OrDefault(criteria.limit, PG_MAX_INT - SliceStart(criteria))
        + SliceStart(criteria) - 1

\* _.reject(options.joins, { select: false })
SelectedJoins(joins) == SelectSeq(joins, LAMBDA j : j.select # Bool(FALSE))

AggregationColumn(join) ==
    [subqueryAlias |-> getSubqueryAlias(join),
     orderBy |-> buildOrderByClause(getSubqueryAlias(join), JoinCriteria(join)),
     start |-> SliceStart(JoinCriteria(join)),
     end |-> SliceEnd(JoinCriteria(join)),
     asColumn |-> getJoinAlias(join)]

buildSelectAggregationColumns(options) ==
    LET sel == SelectedJoins(options.joins) IN
    [i \in DOMAIN sel |-> AggregationColumn(sel[i])]

----------------------------------------------------------------------------
(* What PostgreSQL computes for the column                                 *)
(*   array_to_json((array_remove(array_agg("<alias>".* order by <orderBy>),*)
(*                  null))[<start>:<end>]) as "<asColumn>"                 *)
(* of one root row.  Every join of options.joins is attached to the root   *)
(* query as `left join lateral (...) on true`, so the group of a root row  *)
(* holds one joined row per combination of the children of its joins (a    *)
(* join with no child contributing one all-null row).  kids[i] is the      *)
(* number of children of join i that match the root row; a child is named  *)
(* by its id 1..kids[i], and the association sorts on that id.             *)

Max(a, b) == IF a > b THEN a ELSE b

RECURSIVE GroupSizeFrom(_, _)
GroupSizeFrom(kids, i) ==
    IF i > Len(kids) THEN 1 ELSE Max(1, kids[i]) * GroupSizeFrom(kids, i + 1)

\* the number of joined rows in the group of the root row
GroupSize(kids) == GroupSizeFrom(kids, 1)

\* the children 1..n in the order `order by <orderBy>` gives them
OrderedChildren(n, orderBy) ==
    IF orderBy[1].k = "column" /\ orderBy[1].direction = "desc"
    THEN [r \in 1..n |-> Num(n + 1 - r)]
    ELSE [r \in 1..n |-> Num(r)]

\* array_agg("<alias>".* order by <orderBy>) over the group
ArrayAgg(kids, i, orderBy) ==
    LET mult == GroupSize(kids) \div Max(1, kids[i])
        sorted == OrderedChildren(kids[i], orderBy)
    IN  [k \in 1..GroupSize(kids) |->
            IF kids[i] = 0 THEN Null ELSE sorted[((k - 1) \div mult) + 1]]

\* array_remove(a, null)
ArrayRemoveNull(a) == SelectSeq(a, LAMBDA x : x.t # "null")

\* a[start:end]: 1-based, inclusive, clipped to the bounds of the array
ArraySlice(a, start, end) == SubSeq(a, Max(1, start), Min(end, Len(a)))

\* the value of the aggregation column col, which belongs to join i
EvalAggregationColumn(col, kids, i) ==
    ArraySlice(ArrayRemoveNull(ArrayAgg(kids, i, col.orderBy)), col.start, col.end)

\* the index in joins of the k-th selected join
RECURSIVE SelectedIndex(_, _, _)
SelectedIndex(joins, k, from) ==
    IF joins[from].select # Bool(FALSE)
    THEN IF k = 1 THEN from ELSE SelectedIndex(joins, k - 1, from + 1)
    ELSE SelectedIndex(joins, k, from + 1)

\* the aggregated association columns of one root row, one per selected join
AggregatedColumns(options, kids) ==
    LET cols == buildSelectAggregationColumns(options) IN
    [k \in DOMAIN cols |->
        [asColumn |-> cols[k].asColumn,
         value |-> EvalAggregationColumn(cols[k], kids,
                                         SelectedIndex(options.joins, k, 1))]]

----------------------------------------------------------------------------
(* Attribute definitions.  An attribute definition is a string (the type   *)
(* tag alone) or an object Obj(<<[key, value], ...>>) with distinct keys.  *)

HasKey(obj, key) == \E i \in DOMAIN obj.entries : obj.entries[i].key = key

\* obj[key]
Prop(obj, key) ==
    IF obj.t = "object" /\ HasKey(obj, key)
    THEN obj.entries[CHOOSE i \in DOMAIN obj.entries : obj.entries[i].key = key].value
    ELSE Undefined

\* String.prototype.toLowerCase on the type tags of the model
toLowerCase(tag) ==
    CASE tag = "Integer" -> "integer"
      [] tag = "sqlType" -> "sqltype"
      [] tag = "JSON" -> "json"
      [] OTHER -> tag

\* a column of the knex table builder: table.<method>(name, ...args), and
\* the column-level operations chained on it afterwards
Column(method, name, args) ==
    [t |-> "column", method |-> method, name |-> name, args |-> args, chain |-> <<>>]

Chain(column, operation) == [column EXCEPT !.chain = Append(@, operation)]

\* the switch of toKnexColumn, once `type` is known to be a string
ColumnForType(attr, name, type) ==
    LET tag == toLowerCase(type.name) IN
    CASE tag \in {"character varying", "text", "mediumtext", "longtext"} ->
             [column |-> Column("text", name, <<type>>), log |-> 0]
      [] tag = "string" ->
             [column |-> Column("string", name, <<Prop(attr, "length")>>), log |-> 0]
      [] tag \in {"serial", "smallserial"} ->
             [column |-> Column("specificType", name, <<Name("serial")>>), log |-> 0]
      [] tag = "bigserial" ->
             [column |-> Column("specificType", name, <<Name("bigserial")>>), log |-> 0]
      [] tag = "boolean" ->
             [column |-> Column("boolean", name, <<>>), log |-> 0]
      [] tag \in {"int", "integer", "smallint"} ->
             [column |-> Column("integer", name, <<>>), log |-> 0]
      [] tag \in {"bigint", "biginteger"} ->
             [column |-> Column("bigInteger", name, <<>>), log |-> 0]
      [] tag \in {"real", "float"} ->
             [column |-> Column("float", name,
                                <<Prop(attr, "precision"), Prop(attr, "scale")>>),
              log |-> 0]
      [] tag = "double" ->
             [column |-> Column("float", name, <<Num(15), Prop(attr, "scale")>>),
              log |-> 0]
      [] tag = "decimal" ->
             [column |-> Column("decimal", name,
                                <<Prop(attr, "precision"), Prop(attr, "scale")>>),
              log |-> 0]
      [] tag = "time" ->
             [column |-> Column("time", name, <<>>), log |-> 0]
      [] tag = "date" ->
             [column |-> Column("date", name, <<>>), log |-> 0]
      [] tag \in {"datestamp", "datetime"} ->
             [column |-> Column("timestamp", name, <<Prop(attr, "standard")>>), log |-> 0]
      [] tag = "array" ->
             [column |-> Column("specificType", name, <<Name("text ARRAY")>>), log |-> 0]
      [] tag = "json" ->
             [column |-> Column("json", name, <<>>), log |-> 0]
      [] tag = "jsonb" ->
             [column |-> Column("json", name, <<Bool(TRUE)>>), log |-> 0]
      [] tag \in {"binary", "bytea"} ->
             [column |-> Column("binary", name, <<>>), log |-> 0]
      [] tag = "uuid" ->
             [column |-> Chain(Column("uuid", name, <<>>),
                               [op |-> "defaultTo", value |-> Name("uuid_generate_v4()")]),
              log |-> 0]
      [] tag \in {"enum", "enu"} ->
             [column |-> Column("enu", name, <<Prop(attr, "enum")>>), log |-> 0]
      [] tag = "comment" ->
             \* table.comment(...) sets the comment of the table: no column
             [column |-> Undefined, log |-> 0]
      [] tag = "sqltype" ->
             [column |-> Column("specificType", name, <<type>>), log |-> 0]
      [] OTHER ->
             \* console.error('Unregistered type given for attribute. ...')
             [column |-> Column("text", name, <<>>), log |-> 1]

\* Util.toKnexColumn(table, _name, attrDefinition):
\* [threw, column, log], log counting the calls of console.error
toKnexColumn(_name, attrDefinition) ==
    LET attr == IF attrDefinition.t = "object" THEN attrDefinition
                ELSE Obj(<<[key |-> "type", value |-> attrDefinition]>>)
        type == IF ~IsFalsy(Prop(attr, "autoIncrement")) THEN Name("serial")
                ELSE Prop(attr, "type")
        name == IF ~IsFalsy(Prop(attr, "columnName")) THEN Prop(attr, "columnName").name
                ELSE _name
    IN  IF type.t # "string"
        THEN \* type.toLowerCase is not a function / type is undefined
             [threw |-> TRUE, column |-> Undefined, log |-> 0]
        ELSE [threw |-> FALSE,
              column |-> ColumnForType(attr, name, type).column,
              log |-> ColumnForType(attr, name, type).log]

----------------------------------------------------------------------------
(* Util.applyColumnConstraints / Util.applyParticularColumnConstraint      *)

MetadataKeys ==
    {"type", "primaryKey", "autoIncrement", "on", "via", "foreignKey",
     "references", "model", "alias"}

\* One constraint: [threw, column, log].  A column operation on a column
\* that is undefined is a TypeError.
applyParticularColumnConstraint(column, constraintName, value) ==
    LET none == [threw |-> FALSE, column |-> column, log |-> 0]
        call(operation) ==
            IF column.t # "column"
            THEN [threw |-> TRUE, column |-> column, log |-> 0]
            ELSE [threw |-> FALSE, column |-> Chain(column, operation), log |-> 0]
    IN  IF IsFalsy(value) THEN none
        ELSE CASE constraintName = "index" ->
                      call([op |-> "index",
                            indexName |-> Prop(value, "indexName"),
                            indexType |-> Prop(value, "indexType")])
               [] constraintName = "unique" -> call([op |-> "unique"])
               [] constraintName = "notNull" -> call([op |-> "notNullable"])
               [] constraintName = "defaultsTo" ->
                      call([op |-> "defaultTo", value |-> value])
               [] constraintName \in MetadataKeys -> none
               [] OTHER ->
                      \* console.error('Unknown constraint [', ..., '] on column')
                      [threw |-> FALSE, column |-> column, log |-> 1]

\* the callback of _.map(definition, ...) for the entry e
ConstraintOfEntry(column, definition, e) ==
    IF e.key = "defaultsTo" /\ ~IsFalsy(Prop(definition, "autoIncrement"))
                            /\ e.value = Name("AUTO_INCREMENT")
    THEN [threw |-> FALSE, column |-> column, log |-> 0]
    ELSE applyParticularColumnConstraint(column, e.key, e.value)

RECURSIVE ConstraintsFrom(_, _, _, _)
ConstraintsFrom(column, definition, i, log) ==
    IF i > Len(definition.entries)
    THEN [threw |-> FALSE, column |-> column, log |-> log]
    ELSE LET r == ConstraintOfEntry(column, definition, definition.entries[i]) IN
         IF r.threw THEN [threw |-> TRUE, column |-> r.column, log |-> log]
         ELSE ConstraintsFrom(r.column, definition, i + 1, log + r.log)

applyColumnConstraints(column, definition) ==
    IF definition.t = "string"
    THEN [threw |-> FALSE, column |-> column, log |-> 0]
    ELSE ConstraintsFrom(column, definition, 1, 0)

----------------------------------------------------------------------------
(* Util.applyPrimaryKeyConstraints / Util.applyTableConstraints.           *)
(* A table definition is Obj(<<[key |-> attribute name, value |-> its     *)
(* definition], ...>>).                                                    *)

\* _.pick(object, predicate).  Up to lodash 3 _.pick takes a predicate and
\* gives the entries whose value satisfies it; from lodash 4 on it takes
\* property paths only (the predicate form became _.pickBy), the function
\* names no property of the object and nothing is picked.
\* The predicate here: attribute => attribute[flag].
pick(entries, flag) ==
    IF lodash < 4
    THEN SelectSeq(entries, LAMBDA e : ~IsFalsy(Prop(e.value, flag)))
    ELSE <<>>

applyPrimaryKeyConstraints(definition) ==
    LET picked == pick(definition.entries, "primaryKey")
    IN  [op |-> "primary", columns |-> [i \in DOMAIN picked |-> picked[i].key]]

applyTableConstraints(definition) == applyPrimaryKeyConstraints(definition)

----------------------------------------------------------------------------
(* The callback Adapter.define hands to knex.schema.createTable: the       *)
(* statements it adds to the table builder, in order.                      *)

\* one attribute: toKnexColumn, then applyColumnConstraints on its result
AddAttributeColumn(attributeName, attrDefinition) ==
    LET c == toKnexColumn(attributeName, attrDefinition) IN
    IF c.threw THEN [threw |-> TRUE, column |-> Undefined, log |-> 0]
    ELSE LET k == applyColumnConstraints(c.column, attrDefinition) IN
         [threw |-> k.threw, column |-> k.column, log |-> c.log + k.log]

\* the statements of the callback, given the outcome added[i] of its i-th
\* attribute: the columns added up to the first attribute that throws.
\* table.comment(...) adds no column.
ColumnsAdded(added) ==
    LET thrown == {i \in DOMAIN added : added[i].threw}
        last == IF thrown = {} THEN Len(added)
                ELSE (CHOOSE i \in thrown : \A j \in thrown : i <= j) - 1
        done == SubSeq(added, 1, last)
        columns == SelectSeq(done, LAMBDA a : a.column.t = "column")
        logged[i \in 0..last] == IF i = 0 THEN 0 ELSE logged[i - 1] + done[i].log
    IN  [threw |-> thrown # {},
         statements |-> [i \in DOMAIN columns |-> columns[i].column],
         log |-> logged[last]]

\* _.each(definition, (definition, attributeName) => ...)
TableColumns(definition) ==
    ColumnsAdded([i \in DOMAIN definition.entries |->
                     AddAttributeColumn(definition.entries[i].key,
                                        definition.entries[i].value)])

\* Util.applyTableConstraints(table, definition) after the columns cols
TableConstrained(cols, constraint) ==
    IF cols.threw THEN cols
    ELSE [cols EXCEPT !.statements = Append(@, constraint)]

CreateTableCallback(definition) ==
    TableConstrained(TableColumns(definition), applyTableConstraints(definition))

----------------------------------------------------------------------------
(* Connections.  A connection object cxn is                               *)
(*   [t |-> "cxn", identity, collections]                                  *)
(* where collections maps a table name to [definition, _pk]: the table's   *)
(* definition and, once getPrimaryKey has run for it, definition._pk.      *)

Pair(key, value) == [key |-> key, value |-> value]

\* the schema the connection of the model is registered with
SchemaDefinition(tableName) ==
    CASE tableName = "users" ->
             Obj(<<Pair("id", Obj(<<Pair("type", Name("integer")),
                                    Pair("primaryKey", Bool(TRUE)),
                                    Pair("autoIncrement", Bool(TRUE))>>)),
                   Pair("name", Name("string"))>>)
      [] tableName = "posts" ->
             Obj(<<Pair("id", Obj(<<Pair("type", Name("integer"))>>)),
                   Pair("slug", Obj(<<Pair("type", Name("integer")),
                                      Pair("primaryKey", Bool(TRUE))>>)),
                   Pair("tags", Obj(<<Pair("type", Name("array")),
                                      Pair("primaryKey", Bool(TRUE))>>))>>)
      [] tableName = "tags" ->
             Obj(<<Pair("id", Name("integer")),
                   Pair("slug", Name("integer")),
                   Pair("tags", Name("array"))>>)

Tables == {"users", "posts", "tags"}

NewCollections == [tn \in Tables |-> [definition |-> SchemaDefinition(tn), _pk |-> Undefined]]

\* a variant that finds the last flagged attribute instead of the first:
\* C11 must tell it from _.findKey
FindPrimaryKeyLast(definition) ==
    LET flagged == SelectSeq(definition.entries,
                             LAMBDA e : Prop(e.value, "primaryKey") = Bool(TRUE))
    IN  IF flagged = <<>> THEN Undefined ELSE Name(flagged[Len(flagged)].key)

\* _.findKey(definition, attr => attr.primaryKey === true)
FindPrimaryKey(definition) ==
    LET flagged == SelectSeq(definition.entries,
                             LAMBDA e : Prop(e.value, "primaryKey") = Bool(TRUE))
    IN  IF flagged = <<>> THEN Undefined ELSE Name(flagged[1].key)

\* Adapter.getPrimaryKey({ collections }, tableName), given the value the
\* caller passes as first argument: [threw, pk, collections], collections
\* being the collections after the call (definition._pk is assigned).
getPrimaryKey(target, tableName) ==
    IF target.t # "cxn" \/ tableName \notin DOMAIN target.collections
    THEN \* collections, or collections[tableName], is undefined: TypeError
         [threw |-> TRUE, pk |-> Undefined, collections |-> Undefined]
    ELSE LET coll == target.collections[tableName]
             found == FindPrimaryKey(coll.definition)
             pk == IF ~IsFalsy(coll._pk) THEN coll._pk
                   ELSE IF IsFalsy(found) THEN Name("id") ELSE found
         IN  [threw |-> FALSE, pk |-> pk,
              collections |-> [target.collections EXCEPT ![tableName]._pk = pk]]

----------------------------------------------------------------------------
(* Util.buildWhereClause.  The criteria parser is a collaborator: for the  *)
(* filters options.where = <<v1, ..., vn>> it returns a text that names    *)
(* the values $1..$n in order, and the values.                             *)

ParserQuery(n) ==
    IF n = 0 THEN <<>>
    ELSE LET RECURSIVE Q(_)
             Q(k) == IF k > n THEN <<>>
                     ELSE <<"a", "=", "$">> \o NatText(k) \o Q(k + 1)
         IN Q(1)

\* cxn.knex.raw(sql, bindings): [threw, sql, bindings]
KnexRaw(query, values) ==
    LET cast == castValues(values) IN
    [threw |-> cast.threw, sql |-> toKnexRawQuery(query), bindings |-> cast.val]

buildWhereClause(options) == KnexRaw(ParserQuery(Len(options.where)), options.where)

----------------------------------------------------------------------------
(* Util.buildKnexJoin / Util.buildKnexJoinSubquery *)

buildKnexJoinSubquery(join) ==
    [from |-> join.child,
     where |-> buildWhereClause(JoinCriteria(join)),
     correlation |-> [child |-> <<join.child, join.childKey>>,
                      parent |-> <<getParentAlias(join), join.parentKey>>]]

\* _.each(options.joins, join => query.joinRaw(`left join lateral
\* (${subquery}) as "${alias}" on true`)): the lateral joins in attachment order
LateralJoins(joins) ==
    [i \in DOMAIN joins |-> [subquery |-> buildKnexJoinSubquery(joins[i]),
                             alias |-> getSubqueryAlias(joins[i])]]

\* options.limit || this.PG_MAX_INT
RootLimit(options) == OrDefault(options.limit, PG_MAX_INT)

\* options.skip || 0
RootOffset(options) == OrDefault(options.skip, 0)

\* the first argument buildKnexJoin passes to Adapter.getPrimaryKey
PrimaryKeyTarget(cxn) == Name(cxn.identity)

\* [threw, query, collections]
buildKnexJoin(cxn, tableName, options) ==
    LET selectClause == <<[table |-> tableName, column |-> "*"]>>
                           \o buildSelectAggregationColumns(options)
        pk == getPrimaryKey(PrimaryKeyTarget(cxn), tableName)
        where == buildWhereClause(options)
    IN  IF pk.threw \/ where.threw
        THEN [threw |-> TRUE, query |-> Undefined, collections |-> cxn.collections]
        ELSE [threw |-> FALSE,
              query |-> [t |-> "query",
                         select |-> selectClause,
                         from |-> tableName,
                         where |-> where,
                         groupBy |-> <<tableName, pk.pk.name>>,
                         orderBy |-> buildOrderByClause(tableName, options),
                         limit |-> RootLimit(options),
                         offset |-> RootOffset(options),
                         joins |-> LateralJoins(options.joins)],
              collections |-> pk.collections]

----------------------------------------------------------------------------
(* Adapter.join: what it does with the rows Util.buildKnexJoinQuery        *)
(* resolves with.  A result row is a function from column names to values; *)
(* the column of an association holds Arr(<<record or Null, ...>>), a      *)
(* record being a function from the child's column names to values.        *)

\* the iteratee _.property(pk) of _.uniqBy: undefined for null
KeyOf(entry, pk) ==
    IF entry.t = "null" \/ pk \notin DOMAIN entry.r THEN Undefined ELSE entry.r[pk]

\* _.uniqBy(array, pk): the first entry of every key, in order
uniqBy(array, pk) ==
    LET first(i) == \A j \in 1..(i - 1) : KeyOf(array[j], pk) # KeyOf(array[i], pk)
        keep == {i \in DOMAIN array : first(i)}
        RECURSIVE Pick(_)
        Pick(i) == IF i > Len(array) THEN <<>>
                   ELSE (IF i \in keep THEN <<array[i]>> ELSE <<>>) \o Pick(i + 1)
    IN  Pick(1)

\* _.compact(array): the entries that are not falsy
compact(array) == SelectSeq(array, LAMBDA x : x.t # "null")

\* a variant without _.uniqBy: C3 must tell it from the code
DedupAssociationWithoutUniq(value, pk) ==
    compact(IF value.t = "array" THEN value.a ELSE <<>>)

\* _.compact(_.uniqBy(row[alias], pk)); row[alias] that is no array gives []
DedupAssociation(value, pk) ==
    compact(uniqBy(IF value.t = "array" THEN value.a ELSE <<>>, pk))

\* Util.castResultRows: a value that is the text of an array literal is
\* parsed into the array; every other value is kept
CastResultValue(v) ==
    IF v.t = "string" /\ "s" \in DOMAIN v /\ ~castValue(v).threw
    THEN castValue(v).val ELSE v

CastRecord(entry) == [t |-> "record", r |-> [c \in DOMAIN entry.r |-> CastResultValue(entry.r[c])]]

castResultRows(rows) == [i \in DOMAIN rows |-> CastRecord(rows[i])]

\* the body of _.each(result, row => ...) for the association `join`
JoinRowAssociation(row, join, pk) ==
    [row EXCEPT ![getJoinAlias(join)] =
        Arr(castResultRows(DedupAssociation(row[getJoinAlias(join)], pk)))]

\* _.each(_.reject(options.joins, { select: false }), join => ...), from the
\* k-th selected join on: [threw, rows, collections]
RECURSIVE JoinAssociationsFrom(_, _, _, _)
JoinAssociationsFrom(cxn, joins, k, rows) ==
    IF k > Len(joins)
    THEN [threw |-> FALSE, rows |-> rows, collections |-> cxn.collections]
    ELSE LET pk == getPrimaryKey(cxn, joins[k].child) IN
         IF pk.threw \/ (lodash < 4 /\ rows # <<>>)
         THEN \* before lodash 4, _.uniqBy is not a function
              [threw |-> TRUE, rows |-> rows,
               collections |-> IF pk.threw THEN cxn.collections ELSE pk.collections]
         ELSE JoinAssociationsFrom(
                  [cxn EXCEPT !.collections = pk.collections], joins, k + 1,
                  [i \in DOMAIN rows |-> JoinRowAssociation(rows[i], joins[k], pk.pk.name)])

\* Util.castResultRows on the root rows
castRootRows(rows) ==
    [i \in DOMAIN rows |-> [c \in DOMAIN rows[i] |-> CastResultValue(rows[i][c])]]

\* the two .then callbacks of join: [threw, rows, collections]
JoinResult(cxn, options, result) ==
    LET r == JoinAssociationsFrom(cxn, SelectedJoins(options.joins), 1, result) IN
    [r EXCEPT !.rows = IF r.threw THEN r.rows ELSE castRootRows(r.rows)]

----------------------------------------------------------------------------
(* Bounds and input sets *)

MaxSqlLen == 4        \* characters of a query text
MaxValues == 2        \* values of a parameter list
MaxArrayLen == 2      \* elements of an array value
MaxSortFields == 2    \* fields of a sort specification
MaxJoins == 2         \* joins of a criteria
MaxChildren == 3      \* children of one association matching one root row

SqlAlphabet == {"$", "1", "2", "a"}

QueryTexts == SeqsUpTo(SqlAlphabet, MaxSqlLen)

\* the parameter list <<1, ..., n>>: every value differs from the others
NumberedValues(n) == [i \in 1..n |-> Num(i)]

ArrayValues ==
    {Arr(a) : a \in SeqsUpTo({Num(1), Num(12)}, MaxArrayLen)}
        \cup {Arr(<<Arr(<<>>), Num(2)>>)}

\* the text of an array, and that text cut before its closing bracket
ArrayTexts == {Str(JSONstringify(v)) : v \in ArrayValues}

CutTexts ==
    {Str(SubSeq(JSONstringify(v), 1, Len(JSONstringify(v)) - 1)) : v \in ArrayValues}

ParameterValues ==
    ArrayTexts \cup CutTexts
        \cup {Str(<<"[", "a", "]">>), Str(<<"a">>), Str(<<"1">>), Num(7), Null}

ParameterLists == SeqsUpTo(ParameterValues, MaxValues)

Fields == {"id", "name", "age"}

Directions == {Num(1), Num(-1)}

SortEntries == {[field |-> f, dir |-> d] : f \in Fields, d \in Directions}

\* the objects field -> direction: no field twice
SortObjects ==
    {Obj(es) : es \in {q \in SeqsUpTo(SortEntries, MaxSortFields) :
                          \A i, j \in DOMAIN q : i # j => q[i].field # q[j].field}}

SortSpecs == {Undefined} \cup SortObjects

Absent == [t |-> "absent"]

\* the object with the given entries, those whose value is Absent left out
ObjOf(entries) == Obj(SelectSeq(entries, LAMBDA e : e.value.t # "absent"))

TypeTags ==
    {"character varying", "text", "mediumtext", "longtext", "string", "serial",
     "smallserial", "bigserial", "boolean", "int", "integer", "smallint",
     "bigint", "biginteger", "real", "float", "double", "decimal", "time",
     "date", "datestamp", "datetime", "array", "json", "jsonb", "binary",
     "bytea", "uuid", "enum", "enu", "comment", "sqltype", "sqlType",
     "Integer", "JSON", "made-up-type"}

\* attribute definitions as toKnexColumn meets them
ColumnDefinitions ==
    {Name(tag) : tag \in TypeTags}
        \cup {ObjOf(<<Pair("type", ty), Pair("autoIncrement", ai), Pair("columnName", cn)>>) :
                 ty \in {Name(tag) : tag \in TypeTags} \cup {Absent},
                 ai \in {Absent, Bool(TRUE)},
                 cn \in {Absent, Name("col")}}

\* attribute definitions as applyColumnConstraints meets them
ConstraintDefinitions ==
    {Name("integer")}
        \cup {ObjOf(<<Pair("type", Name("integer")), Pair("autoIncrement", ai),
                      Pair("defaultsTo", dv), Pair("unique", un),
                      Pair("index", ix), Pair("notNull", nn), Pair(mk, Bool(TRUE))>>) :
                 ai \in {Absent, Bool(TRUE)},
                 dv \in {Absent, Num(0), Num(5), Bool(FALSE), Name(""),
                         Name("AUTO_INCREMENT")},
                 un \in {Absent, Bool(TRUE), Bool(FALSE)},
                 ix \in {Absent, Bool(TRUE)},
                 nn \in {Absent, Bool(TRUE)},
                 mk \in {"primaryKey", "foreignKey", "length"}}

ChildName(i) ==
    CASE i = 1 -> "posts" [] i = 2 -> "tags" [] i = 3 -> "comments" [] OTHER -> "likes"

\* the i-th association of the root table "users", with the given criteria
Association(i, criteria, select) ==
    [parent |-> "users", parentKey |-> "id", child |-> ChildName(i),
     childKey |-> "userId", alias |-> ChildName(i), removeParentKey |-> Undefined,
     junctionTable |-> Undefined, select |-> select, criteria |-> criteria]

\* the join instructions of the i-th association of the root table "users":
\* a collection held by a foreign key of the child, a model the root table
\* refers to (here the root table itself), or a collection through a
\* junction table, which takes two instructions
AssociationKinds == {"collection", "model", "junction"}

AssociationJoins(kind, i) ==
    CASE kind = "collection" -> <<Association(i, Undefined, Undefined)>>
      [] kind = "model" ->
            <<[parent |-> "users", parentKey |-> ChildName(i), child |-> "users",
               childKey |-> "id", alias |-> ChildName(i),
               removeParentKey |-> Bool(TRUE), junctionTable |-> Undefined,
               select |-> Undefined, criteria |-> Undefined]>>
      [] OTHER ->
            <<[parent |-> "users", parentKey |-> "id",
               child |-> Concat("users_", ChildName(i)), childKey |-> "users",
               alias |-> ChildName(i), removeParentKey |-> Bool(FALSE),
               junctionTable |-> Undefined, select |-> Bool(FALSE),
               criteria |-> Undefined],
              [parent |-> Concat("users_", ChildName(i)), parentKey |-> ChildName(i),
               child |-> ChildName(i), childKey |-> "id", alias |-> ChildName(i),
               removeParentKey |-> Bool(FALSE), junctionTable |-> Bool(TRUE),
               select |-> Undefined, criteria |-> Undefined]>>

RECURSIVE JoinsOf(_, _)
\* options.joins for the associations kinds[i..] populated together
JoinsOf(kinds, i) ==
    IF i > Len(kinds) THEN <<>>
    ELSE AssociationJoins(kinds[i], i) \o JoinsOf(kinds, i + 1)

Criteria(sort, limit, skip) ==
    [t |-> "object", c |-> [where |-> <<>>, sort |-> sort, limit |-> limit, skip |-> skip]]

Windows == {[skip |-> sk, limit |-> li] : sk \in {Undefined, Num(1)},
                                         li \in {Undefined, Num(0), Num(2)}}

----------------------------------------------------------------------------
(* The state after the module is loaded: no connection is registered.      *)

\* arg and ret while no result is outstanding
Idle == [idle |-> TRUE]

\* The source does not fix the lodash it runs with: it calls _.pick with a
\* predicate (lodash 3 and earlier) and _.uniqBy (lodash 4 and later).
LodashMajors == {3, 4}

MaxPending == 2       \* registerConnection calls waiting at the same time
MaxPools == 2         \* driver pools created in one run
MaxTransactions == 2  \* transactions opened in one run

\* no commitTransaction call has been made
NoCommit ==
    [active |-> FALSE, parentTransaction |-> Undefined, transaction |-> Undefined,
     cb |-> FALSE, commits |-> 0, cbs |-> 0]

\* no Adapter.update call has been made.  stage is the promise the call is
\* waiting for, promise the state of the promise update returned, cbs the
\* number of times cb has been invoked.
NoUpdate ==
    [stage |-> "none", empty |-> FALSE, cb |-> FALSE, promise |-> "none", cbs |-> 0]

\* no teardown is waiting for its destroy promises
NoTeardown ==
    [active |-> FALSE, call |-> Idle, connections |-> <<>>, iterator |-> FALSE,
     promises |-> {}]

Identities == {"pg"}

\* Adapter.connections maps an identity to its connection object;
\* connections[i] is Undefined for an identity the Map does not hold.
\* pending[c] is the connection object the waiting call c built, Undefined
\* when no call waits in the slot c.
Init ==
    /\ op = "none"
    /\ arg = Idle
    /\ ret = Idle
    /\ connections = [i \in Identities |-> Undefined]
    /\ pending = [c \in 1..MaxPending |-> Undefined]
    /\ dbTables = {}
    /\ lodash \in LodashMajors
    /\ knexPools = [p \in 1..MaxPools |-> "none"]
    /\ teardown = NoTeardown
    /\ transactions = [i \in 1..MaxTransactions |-> "none"]
    /\ commit = NoCommit
    /\ update = NoUpdate

\* what the transaction helpers leave alone
registryVars == <<connections, pending, dbTables, lodash, knexPools, teardown>>

\* what the operations other than registerConnection and teardown leave alone
otherVars == <<lodash, knexPools, teardown, transactions, commit, update>>

adapterVars == <<connections, pending, dbTables, otherVars>>

----------------------------------------------------------------------------
(* The functions of Util and Adapter._query, which read no adapter state.  *)
(* A call is made when no result is outstanding (op = "none"); Return is   *)
(* the caller taking the result.                                           *)

Return ==
    /\ op # "none"
    /\ op' = "none"
    /\ arg' = Idle
    /\ ret' = Idle
    /\ UNCHANGED adapterVars

\* Adapter._query(cxn, query, values)
Query ==
    /\ op = "none"
    /\ \E query \in QueryTexts, n \in 0..MaxValues :
        /\ op' = "_query"
        /\ arg' = [query |-> query, values |-> NumberedValues(n)]
        /\ ret' = KnexRaw(query, NumberedValues(n))
        /\ UNCHANGED adapterVars

\* Util.buildWhereClause(cxn, tableName, options)
BuildWhereClause ==
    /\ op = "none"
    /\ \E where \in ParameterLists :
        /\ op' = "buildWhereClause"
        /\ arg' = [where |-> where]
        /\ ret' = buildWhereClause([where |-> where])
        /\ UNCHANGED adapterVars

\* Util.castValues(values)
CastValues ==
    /\ op = "none"
    /\ \E values \in ParameterLists :
        /\ op' = "castValues"
        /\ arg' = [values |-> values]
        /\ ret' = castValues(values)
        /\ UNCHANGED adapterVars

\* Util.buildOrderByClause(tableName, options)
BuildOrderByClause ==
    /\ op = "none"
    /\ \E tableName \in {"users", "posts"}, sort \in SortSpecs :
        /\ op' = "buildOrderByClause"
        /\ arg' = [tableName |-> tableName, sort |-> sort]
        /\ ret' = [orderBy |-> buildOrderByClause(tableName, [sort |-> sort])]
        /\ UNCHANGED adapterVars

\* Util.toKnexColumn(table, _name, attrDefinition)
ToKnexColumn ==
    /\ op = "none"
    /\ \E attrDefinition \in ColumnDefinitions :
        /\ op' = "toKnexColumn"
        /\ arg' = [name |-> "attr", attrDefinition |-> attrDefinition]
        /\ ret' = toKnexColumn("attr", attrDefinition)
        /\ UNCHANGED adapterVars

\* Util.applyColumnConstraints(column, definition)
ApplyColumnConstraints ==
    /\ op = "none"
    /\ \E definition \in ConstraintDefinitions :
        /\ op' = "applyColumnConstraints"
        /\ arg' = [definition |-> definition]
        /\ ret' = applyColumnConstraints(Column("integer", "attr", <<>>), definition)
        /\ UNCHANGED adapterVars

\* Util.buildSelectAggregationColumns(cxn, options) for a criteria whose
\* i-th join has the window windows[i] and kids[i] children matching the
\* root row, and the value PostgreSQL gives each column for that row.
\* unselected names the join flagged select: false (0: none).
BuildSelectAggregationColumns ==
    /\ op = "none"
    /\ \E n \in 1..MaxJoins, dir \in Directions :
        \E windows \in [1..n -> Windows], kids \in [1..n -> 0..MaxChildren],
           unselected \in 0..n :
            LET sort == Obj(<<[field |-> "id", dir |-> dir]>>)
                joins == [i \in 1..n |->
                             Association(i,
                                 Criteria(sort, windows[i].limit, windows[i].skip),
                                 IF i = unselected THEN Bool(FALSE) ELSE Undefined)]
                options == [joins |-> joins]
            IN  /\ op' = "buildSelectAggregationColumns"
                /\ arg' = [options |-> options, kids |-> kids, dir |-> dir]
                /\ ret' = [columns |-> buildSelectAggregationColumns(options),
                           values |-> AggregatedColumns(options, kids)]
                /\ UNCHANGED adapterVars

\* the lateral subqueries buildKnexJoin attaches for the joins of a criteria
BuildKnexJoinSubquery ==
    /\ op = "none"
    /\ \E n \in 1..MaxJoins :
        \E kinds \in [1..n -> AssociationKinds] :
            /\ op' = "buildKnexJoinSubquery"
            /\ arg' = [tableName |-> "users", joins |-> JoinsOf(kinds, 1)]
            /\ ret' = [joins |-> LateralJoins(JoinsOf(kinds, 1))]
            /\ UNCHANGED adapterVars

NextUtil ==
    \/ BuildKnexJoinSubquery
    \/ Query
    \/ BuildWhereClause
    \/ CastValues
    \/ BuildOrderByClause
    \/ ToKnexColumn
    \/ ApplyColumnConstraints
    \/ BuildSelectAggregationColumns
    \/ Return

SpecUtil == Init /\ [][NextUtil]_vars

----------------------------------------------------------------------------
(* Adapter.registerConnection.  The part up to Util.initializeConnection   *)
(* runs with the call; the .then callback runs when the initialization     *)
(* resolves, the .catch callback when it rejects.  pending maps a call to  *)
(* the connection object it built.                                         *)

Waiting == {c \in DOMAIN pending : pending[c].t = "cxn"}

FreeCalls == (DOMAIN pending) \ Waiting

\* Adapter.connections.get(connectionName)
GetConnection(connectionName) == connections[connectionName]

\* the identities Adapter.connections holds
Registered == {i \in Identities : connections[i].t = "cxn"}

\* the pool of the connection registered under identity i, 0 when there is none
PoolOf(i) == IF connections[i].t = "cxn" THEN connections[i].knex ELSE 0

\* the registry as pairs of an identity and the pool of its connection
RegisteredPools == {[identity |-> i, knex |-> PoolOf(i)] : i \in Registered}

\* the pools Knex(...) has not created yet
FreePools == {p \in DOMAIN knexPools : knexPools[p] = "none"}

\* let cxn = { identity, collections, knex, ... }
NewConnection(identity, knex) ==
    [t |-> "cxn", identity |-> identity, collections |-> NewCollections,
     knex |-> knex]

RegisterConnection ==
    /\ op = "none"
    /\ \E identity \in {Name(i) : i \in Identities} \cup {Undefined} :
        /\ op' = "registerConnection"
        /\ arg' = [identity |-> identity]
        /\ IF IsFalsy(identity)
           THEN /\ ret' = [cb |-> "IdentityMissing"]
                /\ UNCHANGED adapterVars
           ELSE IF ~IsFalsy(GetConnection(identity.name))
           THEN /\ ret' = [cb |-> "IdentityDuplicate"]
                /\ UNCHANGED adapterVars
           ELSE /\ FreeCalls # {}
                /\ FreePools # {}
                /\ LET knex == CHOOSE p \in FreePools : \A q \in FreePools : p <= q
                   IN  /\ knexPools' = [knexPools EXCEPT ![knex] = "live"]
                       /\ pending' = [pending EXCEPT
                              ![CHOOSE c \in FreeCalls : \A d \in FreeCalls : c <= d] =
                                  NewConnection(identity.name, knex)]
                /\ ret' = [cb |-> "none"]
                /\ UNCHANGED <<connections, dbTables, lodash, teardown, transactions, commit, update>>

\* Util.initializeConnection(cxn) resolved: the .then callback
InitializeResolved ==
    /\ op = "none"
    /\ \E c \in Waiting :
        /\ op' = "registerConnection.then"
        /\ arg' = [identity |-> Name(pending[c].identity)]
        /\ connections' = [connections EXCEPT ![pending[c].identity] = pending[c]]
        /\ pending' = [pending EXCEPT ![c] = Undefined]
        /\ ret' = [cb |-> "ok"]
        /\ UNCHANGED <<dbTables, otherVars>>

\* Util.initializeConnection(cxn) rejected: .catch(cb)
InitializeRejected ==
    /\ op = "none"
    /\ \E c \in Waiting :
        /\ op' = "registerConnection.catch"
        /\ arg' = [identity |-> Name(pending[c].identity)]
        /\ pending' = [pending EXCEPT ![c] = Undefined]
        /\ ret' = [cb |-> "error"]
        /\ UNCHANGED <<connections, dbTables, otherVars>>

\* Adapter.getPrimaryKey(cxn, tableName), called as join calls it
GetPrimaryKey ==
    /\ op = "none"
    /\ \E connectionName \in Registered, tableName \in Tables \cup {"missing"} :
        LET r == getPrimaryKey(connections[connectionName], tableName) IN
        /\ op' = "getPrimaryKey"
        /\ arg' = [connectionName |-> connectionName, tableName |-> tableName]
        /\ ret' = [threw |-> r.threw, pk |-> r.pk]
        /\ connections' = IF r.threw THEN connections
                          ELSE [connections EXCEPT ![connectionName].collections =
                                                       r.collections]
        /\ UNCHANGED <<pending, dbTables, otherVars>>

----------------------------------------------------------------------------
(* Util.buildKnexJoin on a registered connection *)

RootCriteria ==
    {[where |-> w, sort |-> so, limit |-> li, skip |-> sk, joins |-> js] :
        w \in {<<>>, <<Num(7)>>},
        so \in {Undefined, Obj(<<[field |-> "name", dir |-> Num(1)]>>)},
        li \in {Undefined, Num(0), Num(10)},
        sk \in {Undefined, Num(0), Num(5)},
        js \in {<<>>, <<Association(1, Undefined, Undefined)>>}}

BuildKnexJoin ==
    /\ op = "none"
    /\ \E connectionName \in Registered, options \in RootCriteria :
        LET r == buildKnexJoin(connections[connectionName], "users", options) IN
        /\ op' = "buildKnexJoin"
        /\ arg' = [connectionName |-> connectionName, tableName |-> "users",
                   options |-> options]
        /\ ret' = [threw |-> r.threw, query |-> r.query]
        /\ connections' = [connections EXCEPT ![connectionName].collections =
                                                  r.collections]
        /\ UNCHANGED <<pending, dbTables, otherVars>>

----------------------------------------------------------------------------
(* Adapter.join.  Util.buildKnexJoinQuery resolves with the rows of the    *)
(* joined query or rejects; the rows are an input of the model.            *)

MaxRaw == 3           \* entries of the raw sequence of one association

\* a record of a child table (posts, tags)
ChildRecord(id, slug) ==
    [t |-> "record",
     r |-> [id |-> Num(id), slug |-> Num(slug), tags |-> Str(<<"[", "1", "]">>)]]

RawEntries == {ChildRecord(1, 1), ChildRecord(1, 2), ChildRecord(2, 1), Null}

RawValues == {Arr(q) : q \in SeqsUpTo(RawEntries, MaxRaw)} \cup {Null}

\* a to-many association: the nested records are delivered under its alias
HasMany(child, select) ==
    [parent |-> "users", parentKey |-> "id", child |-> child,
     childKey |-> "userId", alias |-> child, removeParentKey |-> Undefined,
     junctionTable |-> Undefined, select |-> select, criteria |-> Undefined]

\* a to-one association: the nested record replaces the parent's key column
BelongsTo(child) ==
    [parent |-> "users", parentKey |-> IF child = "posts" THEN "post" ELSE "tag",
     child |-> child, childKey |-> "id", alias |-> "favourite",
     removeParentKey |-> Bool(TRUE), junctionTable |-> Undefined,
     select |-> Undefined, criteria |-> Undefined]

OtherChild(child) == IF child = "posts" THEN "tags" ELSE "posts"

JoinLists ==
    UNION {{<<first>>,
            <<first, HasMany(OtherChild(first.child), Undefined)>>,
            <<first, HasMany(OtherChild(first.child), Bool(FALSE))>>} :
              first \in {HasMany("posts", Undefined), HasMany("tags", Undefined),
                         BelongsTo("posts"), BelongsTo("tags")}}

\* the columns of a result row: the root's key and one per selected join
RowColumns(joins) ==
    {"id"} \cup {getJoinAlias(SelectedJoins(joins)[k]) : k \in DOMAIN SelectedJoins(joins)}

Join ==
    /\ op = "none"
    /\ \E connectionName \in Identities, joins \in JoinLists, raw \in RawValues,
       resolved \in BOOLEAN :
        LET cxn == GetConnection(connectionName)
            options == [joins |-> joins]
            result == <<[c \in RowColumns(joins) |-> IF c = "id" THEN Num(1) ELSE raw]>>
            r == JoinResult(cxn, options, result)
        IN  /\ op' = "join"
            /\ arg' = [connectionName |-> connectionName, tableName |-> "users",
                       options |-> options, result |-> result,
                       resolved |-> resolved]
            /\ IF cxn.t # "cxn"
               THEN \* cxn.collections of undefined: join throws
                    /\ resolved
                    /\ raw = Null
                    /\ ret' = [threw |-> TRUE, cb |-> "none", rows |-> <<>>]
                    /\ UNCHANGED adapterVars
               ELSE IF ~resolved
               THEN \* .catch(AdapterError.wrap(cb))
                    /\ raw = Null
                    /\ ret' = [threw |-> FALSE, cb |-> "error", rows |-> <<>>]
                    /\ UNCHANGED adapterVars
               ELSE /\ ret' = [threw |-> FALSE,
                               cb |-> IF r.threw THEN "error" ELSE "result",
                               rows |-> IF r.threw THEN <<>> ELSE r.rows]
                    /\ connections' = [connections EXCEPT ![connectionName].collections =
                                                              r.collections]
                    /\ UNCHANGED <<pending, dbTables, otherVars>>

----------------------------------------------------------------------------
(* Adapter.define and Adapter.addAttribute *)

MaxAttributes == 2    \* attributes of a table definition handed to define

\* a table name of 70 characters, and its first 63
LongTableName == "an_exceedingly_long_table_name_that_postgresql_must_cut_to_its_limit_x"

substring63(tableName) ==
    IF tableName = LongTableName
    THEN "an_exceedingly_long_table_name_that_postgresql_must_cut_to_its_"
    ELSE tableName

AttributeName(i) ==
    CASE i = 1 -> "id" [] i = 2 -> "name" [] i = 3 -> "owner" [] OTHER -> "extra"

\* attribute definitions of the tables handed to define
TableAttributes ==
    {Name("string"),
     Name("comment"),
     Obj(<<Pair("type", Name("integer"))>>),
     Obj(<<Pair("type", Name("integer")), Pair("primaryKey", Bool(TRUE))>>),
     Obj(<<Pair("type", Name("integer")), Pair("primaryKey", Bool(TRUE)),
           Pair("columnName", Name("col"))>>),
     Obj(<<Pair("via", Name("owner"))>>)}

TableDefinitions ==
    {Obj([i \in DOMAIN as |-> Pair(AttributeName(i), as[i])]) :
        as \in UNION {[1..n -> TableAttributes] : n \in 1..MaxAttributes}}

\* what define hands to its caller, given the connection, whether hasTable
\* found the table, and the outcome of the createTable callback
DefineOutcome(cxn, exists, built) ==
    IF cxn.t # "cxn"
    THEN \* cxn.collections of undefined: define throws
         [threw |-> TRUE, cb |-> "none", created |-> FALSE,
          statements |-> <<>>, log |-> 0]
    ELSE IF exists
    THEN \* hasTable: the table exists, nothing is created
         [threw |-> FALSE, cb |-> "ok", created |-> FALSE,
          statements |-> <<>>, log |-> 0]
    ELSE IF built.threw
    THEN \* the createTable callback threw: .catch(AdapterError.wrap(cb))
         [threw |-> FALSE, cb |-> "error", created |-> FALSE,
          statements |-> built.statements, log |-> built.log]
    ELSE [threw |-> FALSE, cb |-> "ok", created |-> TRUE,
          statements |-> built.statements, log |-> built.log]

Define ==
    /\ op = "none"
    /\ \E connectionName \in Identities, _tableName \in {"users", LongTableName},
          definition \in TableDefinitions :
        /\ op' = "define"
        /\ arg' = [connectionName |-> connectionName, tableName |-> _tableName,
                   definition |-> definition]
        /\ ret' = DefineOutcome(GetConnection(connectionName),
                                substring63(_tableName) \in dbTables,
                                CreateTableCallback(definition))
        /\ dbTables' = IF ret'.created THEN dbTables \cup {substring63(_tableName)}
                       ELSE dbTables
        /\ UNCHANGED <<connections, pending, otherVars>>

AddAttribute ==
    /\ op = "none"
    /\ \E connectionName \in Identities, tableName \in {"users"},
       definition \in TableAttributes :
        LET cxn == GetConnection(connectionName)
            built == AddAttributeColumn("added", definition)
        IN  /\ op' = "addAttribute"
            /\ arg' = [connectionName |-> connectionName, tableName |-> tableName,
                       attributeName |-> "added", definition |-> definition]
            /\ ret' = IF cxn.t # "cxn"
                      THEN [threw |-> TRUE, cb |-> "none", column |-> Undefined,
                            log |-> 0]
                      ELSE [threw |-> FALSE,
                            cb |-> IF built.threw THEN "error" ELSE "ok",
                            column |-> built.column, log |-> built.log]
            /\ UNCHANGED adapterVars

----------------------------------------------------------------------------
(* Adapter.teardown (conn, cb = conn).  The call runs up to Promise.all;   *)
(* the .then callback runs once every knex.destroy() promise has resolved, *)
(* the .catch callback when one of them rejects.                           *)

\* a function value: the callback handed over as the only argument
Callback == [t |-> "function"]

\* the ways the specification lists to call teardown: teardown(name, cb),
\* teardown(null, cb) and teardown(cb)
TeardownArguments == {Name(i) : i \in Identities} \cup {Null, Callback}

\* Adapter.connections.get(conn) for any key
MapGet(conn) ==
    IF conn.t = "string" /\ conn.name \in Identities THEN GetConnection(conn.name)
    ELSE Undefined

RECURSIVE MapValues(_)
\* what iterating Adapter.connections.values() yields
MapValues(identities) ==
    IF identities = {} THEN <<>>
    ELSE LET i == CHOOSE j \in identities : TRUE
         IN  <<connections[i]>> \o MapValues(identities \ {i})

\* the pools of the connections the first loop calls cxn.knex.destroy() on
DestroyCalls(visited) ==
    {visited[k].knex : k \in {j \in DOMAIN visited : ~IsFalsy(visited[j])}}

\* teardown up to Promise.all(promises); with a falsy conn `connections` is
\* the iterator of Adapter.connections.values(), which the first loop uses up
Teardown ==
    /\ op = "none"
    /\ ~teardown.active
    /\ \E conn \in TeardownArguments :
        LET visited == IF IsFalsy(conn) THEN MapValues(Registered)
                       ELSE <<MapGet(conn)>>
            promises == {p \in DestroyCalls(visited) : knexPools[p] # "destroyed"}
        IN  /\ op' = "teardown"
            /\ arg' = [conn |-> conn, registered |-> RegisteredPools]
            /\ ret' = [cb |-> "none"]
            /\ knexPools' = [p \in DOMAIN knexPools |->
                                IF p \in promises THEN "destroying" ELSE knexPools[p]]
            /\ teardown' = [active |-> TRUE, call |-> arg',
                            connections |-> IF IsFalsy(conn) THEN <<>> ELSE visited,
                            iterator |-> IsFalsy(conn), promises |-> promises]
            /\ UNCHANGED <<connections, pending, dbTables, lodash, transactions, commit, update>>

\* one cxn.knex.destroy() promise resolves
DestroyResolved ==
    /\ op = "none"
    /\ \E p \in DOMAIN knexPools :
        /\ knexPools[p] = "destroying"
        /\ knexPools' = [knexPools EXCEPT ![p] = "destroyed"]
        /\ teardown' = [teardown EXCEPT !.promises = @ \ {p}]
        /\ UNCHANGED <<op, arg, ret, connections, pending, dbTables, lodash,
                       transactions, commit, update>>

\* the identities the second loop hands to Adapter.connections.delete
Deleted(remaining) ==
    {remaining[k].identity : k \in {j \in DOMAIN remaining : ~IsFalsy(remaining[j])}}

\* Promise.all resolved: the .then callback
TeardownThen ==
    /\ op = "none"
    /\ teardown.active
    /\ teardown.promises = {}
    /\ op' = "teardown.then"
    /\ arg' = teardown.call
    /\ ret' = [cb |-> "ok"]
    /\ connections' = [i \in Identities |->
                          IF i \in Deleted(teardown.connections) THEN Undefined
                          ELSE connections[i]]
    /\ teardown' = NoTeardown
    /\ UNCHANGED <<pending, dbTables, lodash, knexPools, transactions, commit, update>>

\* one cxn.knex.destroy() promise rejects: .catch(cb)
TeardownCatch ==
    /\ op = "none"
    /\ teardown.active
    /\ \E p \in teardown.promises :
        /\ op' = "teardown.catch"
        /\ arg' = teardown.call
        /\ ret' = [cb |-> "error"]
        /\ knexPools' = [knexPools EXCEPT ![p] = "failed"]
        /\ teardown' = NoTeardown
        /\ UNCHANGED <<connections, pending, dbTables, lodash, transactions, commit, update>>

----------------------------------------------------------------------------
(* Util.getTransaction and Util.commitTransaction.  A transaction handle   *)
(* has a commit function; the knex instance and undefined have none.       *)

Transaction(id) == [t |-> "transaction", id |-> id]

Knex == [t |-> "knex"]

\* the handles of the transactions that are open
OpenTransactions == {Transaction(i) : i \in {j \in DOMAIN transactions :
                                                transactions[j] = "open"}}

\* Util.getTransaction(connection, parentTransaction): the promise executor
GetTransaction ==
    /\ op = "none"
    /\ \E enableTransactions \in {Undefined, Bool(TRUE), Bool(FALSE)},
          parentTransaction \in {Undefined} \cup OpenTransactions :
        /\ op' = "getTransaction"
        /\ arg' = [enableTransactions |-> enableTransactions,
                   parentTransaction |-> parentTransaction]
        /\ IF ~IsFalsy(parentTransaction)
           THEN /\ ret' = [resolved |-> parentTransaction]
                /\ UNCHANGED transactions
           ELSE IF enableTransactions # Bool(FALSE)
           THEN /\ \E i \in DOMAIN transactions :
                      /\ transactions[i] = "none"
                      /\ \A j \in 1..(i - 1) : transactions[j] # "none"
                      /\ transactions' = [transactions EXCEPT ![i] = "opening"]
                /\ ret' = [resolved |-> Undefined]
           ELSE /\ ret' = [resolved |-> Knex]
                /\ UNCHANGED transactions
        /\ UNCHANGED <<registryVars, commit, update>>

\* connection.knex.transaction(txn => { resolve(txn) }): the callback
TransactionOpened ==
    /\ op = "none"
    /\ \E i \in DOMAIN transactions :
        /\ transactions[i] = "opening"
        /\ op' = "getTransaction.resolve"
        /\ arg' = [enableTransactions |-> Undefined, parentTransaction |-> Undefined]
        /\ ret' = [resolved |-> Transaction(i)]
        /\ transactions' = [transactions EXCEPT ![i] = "open"]
        /\ UNCHANGED <<registryVars, commit, update>>

\* the commit test without its last conjunct
ShouldCommitWithParent(parentTransaction, transaction) ==
    /\ ~IsFalsy(transaction)
    /\ transaction.t = "transaction"

\* transaction && _.isFunction(transaction.commit) && !parentTransaction
ShouldCommit(parentTransaction, transaction) ==
    /\ ~IsFalsy(transaction)
    /\ transaction.t = "transaction"
    /\ IsFalsy(parentTransaction)

\* Util.commitTransaction(parentTransaction, transaction, result, cb)
CommitTransaction ==
    /\ op = "none"
    /\ ~commit.active
    /\ \E parentTransaction \in {Undefined} \cup OpenTransactions,
          transaction \in {Undefined, Knex} \cup OpenTransactions,
          cb \in BOOLEAN :
        /\ op' = "commitTransaction"
        /\ arg' = [parentTransaction |-> parentTransaction,
                   transaction |-> transaction, cb |-> cb]
        /\ IF ShouldCommit(parentTransaction, transaction)
           THEN /\ transactions' = [transactions EXCEPT ![transaction.id] = "committing"]
                /\ commit' = [active |-> TRUE, parentTransaction |-> parentTransaction,
                              transaction |-> transaction, cb |-> cb,
                              commits |-> 1, cbs |-> 0]
                /\ ret' = [cb |-> "none"]
           ELSE /\ commit' = [active |-> FALSE, parentTransaction |-> parentTransaction,
                              transaction |-> transaction, cb |-> cb,
                              commits |-> 0, cbs |-> IF cb THEN 1 ELSE 0]
                /\ ret' = [cb |-> IF cb THEN "result" ELSE "none"]
                /\ UNCHANGED transactions
        /\ UNCHANGED <<registryVars, update>>

\* transaction.commit() resolved: the .then callback
CommitResolved ==
    /\ op = "none"
    /\ commit.active
    /\ op' = "commitTransaction.then"
    /\ arg' = [parentTransaction |-> commit.parentTransaction,
               transaction |-> commit.transaction, cb |-> commit.cb]
    /\ ret' = [cb |-> IF commit.cb THEN "result" ELSE "none"]
    /\ transactions' = [transactions EXCEPT ![commit.transaction.id] = "committed"]
    /\ commit' = [commit EXCEPT !.active = FALSE,
                                !.cbs = @ + (IF commit.cb THEN 1 ELSE 0)]
    /\ UNCHANGED <<registryVars, update>>

\* transaction.commit() rejected: the returned promise rejects, no handler
CommitRejected ==
    /\ op = "none"
    /\ commit.active
    /\ op' = "commitTransaction.rejected"
    /\ arg' = [parentTransaction |-> commit.parentTransaction,
               transaction |-> commit.transaction, cb |-> commit.cb]
    /\ ret' = [cb |-> "none"]
    /\ transactions' = [transactions EXCEPT ![commit.transaction.id] = "failed"]
    /\ commit' = [commit EXCEPT !.active = FALSE]
    /\ UNCHANGED <<registryVars, update>>

----------------------------------------------------------------------------
(* Adapter.update and, for empty data, Adapter.find.  Adapter._query       *)
(* resolves with the rows or rejects; AdapterError.wrap(cb) hands the      *)
(* error to cb when there is one and rejects otherwise.                    *)

\* Adapter.update(connectionName, tableName, options, data, cb) up to the
\* first promise: with empty data the executor returns Adapter.find(...) and
\* calls neither resolve nor reject
Update ==
    /\ op = "none"
    /\ update.stage \in {"none", "done"}
    /\ \E connectionName \in Registered, empty \in BOOLEAN, cb \in BOOLEAN :
        /\ op' = "update"
        /\ arg' = [connectionName |-> connectionName, empty |-> empty, cb |-> cb]
        /\ ret' = [promise |-> "pending"]
        /\ update' = [stage |-> IF empty THEN "find" ELSE "update", empty |-> empty,
                      cb |-> cb, promise |-> "pending", cbs |-> 0]
        /\ UNCHANGED <<registryVars, transactions, commit>>

\* update: Adapter._query resolved, .then(({ rows }) => ...)
UpdateQueryResolved ==
    /\ op = "none"
    /\ update.stage = "update"
    /\ op' = "update.then"
    /\ arg' = [connectionName |-> "", empty |-> update.empty, cb |-> update.cb]
    /\ ret' = [promise |-> "fulfilled"]
    /\ update' = [update EXCEPT !.stage = "done", !.promise = "fulfilled",
                                !.cbs = @ + (IF update.cb THEN 1 ELSE 0)]
    /\ UNCHANGED <<registryVars, transactions, commit>>

\* update: a promise of the chain rejected, .catch(AdapterError.wrap(cb, null, data))
UpdateQueryRejected ==
    /\ op = "none"
    /\ update.stage = "update"
    /\ op' = "update.catch"
    /\ arg' = [connectionName |-> "", empty |-> update.empty, cb |-> update.cb]
    /\ ret' = [promise |-> IF update.cb THEN "fulfilled" ELSE "rejected"]
    /\ update' = [update EXCEPT !.stage = "done", !.promise = ret'.promise,
                                !.cbs = @ + (IF update.cb THEN 1 ELSE 0)]
    /\ UNCHANGED <<registryVars, transactions, commit>>

\* find: Adapter._query resolved, .then(({ rows }) => ...); the promise that
\* settles is the one find returned to the executor of update
FindQueryResolved ==
    /\ op = "none"
    /\ update.stage = "find"
    /\ op' = "find.then"
    /\ arg' = [connectionName |-> "", empty |-> update.empty, cb |-> update.cb]
    /\ ret' = [promise |-> "fulfilled"]
    /\ update' = [update EXCEPT !.stage = "done",
                                !.cbs = @ + (IF update.cb THEN 1 ELSE 0)]
    /\ UNCHANGED <<registryVars, transactions, commit>>

\* find: a promise of the chain rejected, .catch(AdapterError.wrap(cb))
FindQueryRejected ==
    /\ op = "none"
    /\ update.stage = "find"
    /\ op' = "find.catch"
    /\ arg' = [connectionName |-> "", empty |-> update.empty, cb |-> update.cb]
    /\ ret' = [promise |-> IF update.cb THEN "fulfilled" ELSE "rejected"]
    /\ update' = [update EXCEPT !.stage = "done",
                                !.cbs = @ + (IF update.cb THEN 1 ELSE 0)]
    /\ UNCHANGED <<registryVars, transactions, commit>>

----------------------------------------------------------------------------
(* The adapter: connections are registered, then tables are defined and    *)
(* queried through them.                                                   *)

Registration ==
    \/ RegisterConnection
    \/ InitializeResolved
    \/ InitializeRejected
    \/ Return

\* a registerConnection call made while no other one is waiting
RegisterAlone == Waiting = {} /\ RegisterConnection

NextJoin ==
    \/ RegisterAlone
    \/ InitializeResolved
    \/ InitializeRejected
    \/ Return
    \/ GetPrimaryKey
    \/ BuildKnexJoin
    \/ Join

SpecJoin == Init /\ [][NextJoin]_vars

NextDefine ==
    \/ Registration
    \/ Define
    \/ AddAttribute

SpecDefine == Init /\ [][NextDefine]_vars

NextRegistry ==
    \/ Registration
    \/ Teardown
    \/ DestroyResolved
    \/ TeardownThen
    \/ TeardownCatch

SpecRegistry == Init /\ [][NextRegistry]_vars

NextTransaction ==
    \/ GetTransaction
    \/ TransactionOpened
    \/ CommitTransaction
    \/ CommitResolved
    \/ CommitRejected
    \/ Return

SpecTransaction == Init /\ [][NextTransaction]_vars

\* the continuations of an update call
UpdateSettles ==
    \/ UpdateQueryResolved
    \/ UpdateQueryRejected
    \/ FindQueryResolved
    \/ FindQueryRejected

NextUpdate ==
    \/ RegisterAlone
    \/ InitializeResolved
    \/ InitializeRejected
    \/ Update
    \/ UpdateSettles
    \/ Return

\* the driver answers every query and the event loop runs every callback
\* that is due, whatever other calls are made in between
SpecUpdateFair ==
    Init /\ [][NextUpdate]_vars /\ SF_vars(UpdateSettles) /\ WF_vars(Return)

----------------------------------------------------------------------------
(* Claims *)

\* the numbered placeholders of the text are exactly $1..$n, n the number of values
ReferencesAllValues(query, n) ==
    LET ph == PlaceholdersFrom(query, 1) IN {ph[k] : k \in DOMAIN ph} = 1..n

\* the k-th positional placeholder binds the value its original number named
BindsByNumber(query, values, compiled) ==
    LET ph == PlaceholdersFrom(query, 1) IN
    /\ CountOf("?", compiled.sql) = Len(compiled.bindings)
    /\ Len(ph) = Len(compiled.bindings)
    /\ \A k \in DOMAIN ph : compiled.bindings[k] = castValues(values).val[ph[k]]

\* C1: for every (query, values) pair executed through Adapter._query or
\* compiled by Util.buildWhereClause whose text references the n values by
\* the numbered placeholders $1..$n, the rewritten text has as many
\* positional placeholders as there are bound parameters, and each
\* placeholder binds the value its original number referred to.
C1_PlaceholdersMatchParameters ==
    /\ (op = "_query" /\ ~ret.threw
            /\ ReferencesAllValues(arg.query, Len(arg.values)))
          => BindsByNumber(arg.query, arg.values, ret)
    /\ (op = "buildWhereClause" /\ ~ret.threw)
          => BindsByNumber(ParserQuery(Len(arg.where)), arg.where, ret)

\* the children 1..n of an association in its sort order (dir: 1 ascending)
SortedChildren(n, dir) ==
    [r \in 1..n |-> IF dir = Num(1) THEN Num(r) ELSE Num(n + 1 - r)]

\* the children at the positions s+1 .. min(n, s+l) of the sort order; every
\* child from s+1 on when no limit is given
ExpectedWindow(n, dir, criteria) ==
    LET s == IF criteria.skip.t = "number" THEN criteria.skip.n ELSE 0 IN
    IF criteria.limit.t = "number"
    THEN SubSeq(SortedChildren(n, dir), s + 1, Min(n, s + criteria.limit.n))
    ELSE SubSeq(SortedChildren(n, dir), s + 1, n)

\* C2: for every selected association with skip s (default 0) and limit l
\* and every parent row with n matching children, the aggregated column holds
\* exactly the children at positions s+1 .. min(n, s+l) of the association's
\* sort order, every child from s+1 on when no limit is given, and never a
\* null placeholder.
C2_AggregationWindow ==
    op = "buildSelectAggregationColumns" =>
        LET joins == arg.options.joins
            sel == SelectedJoins(joins)
        IN  /\ Len(ret.values) = Len(sel)
            /\ \A k \in DOMAIN sel :
                  LET i == SelectedIndex(joins, k, 1) IN
                  /\ ret.values[k].asColumn = joins[i].alias
                  /\ \A x \in DOMAIN ret.values[k].value :
                        ret.values[k].value[x].t # "null"
                  /\ ret.values[k].value =
                         ExpectedWindow(arg.kids[i], arg.dir, joins[i].criteria.c)


\* the primary key of a child table, read off the schema: the first
\* attribute flagged primaryKey, 'id' when there is none
DeclaredPrimaryKey(tableName) ==
    LET es == SchemaDefinition(tableName).entries
        flagged == {i \in DOMAIN es : Prop(es[i].value, "primaryKey") = Bool(TRUE)}
    IN  IF flagged = {} THEN "id"
        ELSE es[CHOOSE i \in flagged : \A j \in flagged : i <= j].key

\* the raw sequence the query delivered for the association `join`
RawSequence(row, join) ==
    IF row[getJoinAlias(join)].t = "array" THEN row[getJoinAlias(join)].a ELSE <<>>

\* nested is raw without its null entries and with only the first record of
\* every primary-key value, in the order of raw
IsDeduplicated(nested, raw, pk) ==
    LET records == {i \in DOMAIN raw : raw[i].t = "record"}
        firstOf(i) == \A j \in records : raw[j].r[pk] = raw[i].r[pk] => i <= j
        firsts == {i \in records : firstOf(i)}
    IN  /\ \A x \in DOMAIN nested : nested[x].t = "record"
        /\ \A x, y \in DOMAIN nested :
              x # y => nested[x].r[pk] # nested[y].r[pk]
        /\ Len(nested) = Cardinality(firsts)
        /\ \A x \in DOMAIN nested :
              \E i \in firsts :
                  /\ nested[x] = CastRecord(raw[i])
                  /\ Cardinality({j \in firsts : j < i}) = x - 1

\* C3: after Adapter.join has delivered its result, for every result row and
\* every association not flagged select: false, the nested sequence under
\* the association's (resolved) alias holds no null entry and no two records
\* with the same value of the child's primary key; of the records sharing a
\* key value the first of the raw sequence is kept, and the kept records
\* stand in the order of the raw sequence.
C3_JoinDeduplicates ==
    (op = "join" /\ ret.cb = "result") =>
        \A x \in DOMAIN ret.rows :
            \A k \in DOMAIN SelectedJoins(arg.options.joins) :
                LET join == SelectedJoins(arg.options.joins)[k] IN
                /\ ret.rows[x][getJoinAlias(join)].t = "array"
                /\ IsDeduplicated(ret.rows[x][getJoinAlias(join)].a,
                                  RawSequence(arg.result[x], join),
                                  DeclaredPrimaryKey(join.child))

\* a join delivered a row whose raw sequence held a null entry and two
\* records with one primary-key value, and kept two records of it
C3_Witness ==
    /\ op = "join"
    /\ ret.cb = "result"
    /\ \E x \in DOMAIN ret.rows :
          LET join == SelectedJoins(arg.options.joins)[1]
              raw == RawSequence(arg.result[x], join)
              pk == DeclaredPrimaryKey(join.child)
          IN  /\ \E i \in DOMAIN raw : raw[i].t = "null"
              /\ \E i, j \in DOMAIN raw :
                    /\ i < j
                    /\ raw[i].t = "record" /\ raw[j].t = "record"
                    /\ raw[i] # raw[j]
                    /\ raw[i].r[pk] = raw[j].r[pk]
              /\ Len(ret.rows[x][getJoinAlias(join)].a) = 1

\* the value of a number-valued option, d when the option is not specified
Specified(x, d) == IF x.t = "number" THEN x.n ELSE d

\* C4: the root query built by buildKnexJoin carries LIMIT criteria.limit
\* whenever a limit is specified (any non-negative integer) and 2147483647
\* when it is not, and OFFSET criteria.skip whenever a skip is specified and
\* 0 when it is not.
C4_RootLimitAndOffset ==
    op = "buildKnexJoin" =>
        /\ ~ret.threw
        /\ ret.query.limit = Specified(arg.options.limit, 2147483647)
        /\ ret.query.offset = Specified(arg.options.skip, 0)

\* C5: buildOrderByClause yields the constant fragment '1' for an empty or
\* absent sort, and for a non-empty sort one term per field, in the order of
\* the specification, each qualified by the table name, without direction
\* modifier for an ascending field and with 'desc' for a descending one.
C5_OrderByClause ==
    op = "buildOrderByClause" =>
        IF arg.sort.t = "undefined" \/ arg.sort.entries = <<>>
        THEN ret.orderBy = <<[k |-> "literal", text |-> "1"]>>
        ELSE /\ Len(ret.orderBy) = Len(arg.sort.entries)
             /\ \A i \in DOMAIN ret.orderBy :
                   /\ ret.orderBy[i].k = "column"
                   /\ ret.orderBy[i].table = arg.tableName
                   /\ ret.orderBy[i].field = arg.sort.entries[i].field
                   /\ arg.sort.entries[i].dir = Num(1) =>
                          ret.orderBy[i].direction = ""
                   /\ arg.sort.entries[i].dir = Num(-1) =>
                          ret.orderBy[i].direction = "desc"

\* a sort of two fields, the first descending and the second ascending
C5_Witness ==
    /\ op = "buildOrderByClause"
    /\ arg.sort.t = "object"
    /\ Len(arg.sort.entries) = 2
    /\ arg.sort.entries[1].dir = Num(-1)
    /\ arg.sort.entries[2].dir = Num(1)
    /\ Len(ret.orderBy) = 2


\* a string value whose text begins with '['
BeginsWithBracket(v) ==
    v.t = "string" /\ Len(v.s) > 0 /\ v.s[1] = "["

\* C6: castValues is a position-wise, length-preserving map over the
\* parameter list: it returns (never throws), every string value that begins
\* with '[' is replaced by a native sequence, every other value is returned
\* unchanged at its index, and the bracketed-literal text of a sequence is
\* cast back to that sequence.
C6_CastValuesPositionWise ==
    op = "castValues" =>
        /\ ~ret.threw
        /\ Len(ret.val) = Len(arg.values)
        /\ \A i \in DOMAIN arg.values :
              IF BeginsWithBracket(arg.values[i])
              THEN ret.val[i].t = "array"
              ELSE ret.val[i] = arg.values[i]
        /\ \A i \in DOMAIN arg.values :
              \A v \in ArrayValues :
                  arg.values[i] = Str(JSONstringify(v)) => ret.val[i] = v

\* the type tags toKnexColumn has a case for, compared in lower case
SupportedTags ==
    {"character varying", "text", "mediumtext", "longtext", "string", "serial",
     "smallserial", "bigserial", "boolean", "int", "integer", "smallint",
     "bigint", "biginteger", "real", "float", "double", "decimal", "time",
     "date", "datestamp", "datetime", "array", "json", "jsonb", "binary",
     "bytea", "uuid", "enum", "enu", "comment", "sqltype"}

\* C7: for every attribute handed to it toKnexColumn returns a column
\* without throwing: the serial column whenever the attribute is
\* auto-increment, the generic text column with exactly one diagnostic for a
\* type tag outside the supported set, and no diagnostic for a supported tag.
C7_ToKnexColumnTotal ==
    op = "toKnexColumn" =>
        LET attr == IF arg.attrDefinition.t = "object" THEN arg.attrDefinition
                    ELSE Obj(<<[key |-> "type", value |-> arg.attrDefinition]>>)
            auto == Prop(attr, "autoIncrement") = Bool(TRUE)
            type == Prop(attr, "type")
        IN  /\ ~ret.threw
            /\ ret.column.t = "column"
            /\ auto => /\ ret.column.method = "specificType"
                       /\ ret.column.args = <<Name("serial")>>
                       /\ ret.log = 0
            /\ (~auto /\ type.t = "string"
                      /\ toLowerCase(type.name) \notin SupportedTags) =>
                   /\ ret.column.method = "text"
                   /\ ret.log = 1
            /\ (~auto /\ type.t = "string"
                      /\ toLowerCase(type.name) \in SupportedTags) =>
                   ret.log = 0

\* the operations of the given kind chained on a column
Operations(column, kind) == SelectSeq(column.chain, LAMBDA o : o.op = kind)

\* the flag `key` is declared (set) by the definition
Declares(definition, key) ==
    definition.t = "object" /\ Prop(definition, key) = Bool(TRUE)

\* C8: applyColumnConstraints performs exactly one column operation per
\* declared recognized constraint key: an index for 'index', a uniqueness
\* constraint for 'unique', not-nullable for 'notNull', and for every
\* declared default value v of the column's type (here: a number) a column
\* default equal to v; the AUTO_INCREMENT sentinel on an auto-increment
\* attribute and the relationship and metadata keys cause no operation.
C8_OneOperationPerConstraint ==
    op = "applyColumnConstraints" =>
        LET d == arg.definition
            dv == IF d.t = "object" THEN Prop(d, "defaultsTo") ELSE Undefined
            count(kind) == Len(Operations(ret.column, kind))
        IN  /\ ~ret.threw
            /\ count("index") = IF Declares(d, "index") THEN 1 ELSE 0
            /\ count("unique") = IF Declares(d, "unique") THEN 1 ELSE 0
            /\ count("notNullable") = IF Declares(d, "notNull") THEN 1 ELSE 0
            /\ dv.t = "number" =>
                   Operations(ret.column, "defaultTo") = <<[op |-> "defaultTo", value |-> dv]>>
            /\ (dv.t = "undefined"
                   \/ (dv = Name("AUTO_INCREMENT") /\ Declares(d, "autoIncrement"))) =>
                   count("defaultTo") = 0
            /\ \A i \in DOMAIN ret.column.chain :
                   ret.column.chain[i].op \in {"index", "unique", "notNullable", "defaultTo"}

\* the attributes of a table definition flagged primaryKey, in order
FlaggedPrimaryKey(definition) ==
    LET picked == SelectSeq(definition.entries,
                            LAMBDA e : Prop(e.value, "primaryKey") = Bool(TRUE))
    IN  [i \in DOMAIN picked |-> picked[i].key]

\* C9: when define creates a table, exactly one primary-key constraint is
\* applied, it is applied after every column has been added, its column
\* list is exactly the attributes flagged primaryKey, and each of them names
\* a column added to the table by the same operation.
C9_PrimaryKeyConstraint ==
    (op = "define" /\ ret.created) =>
        LET n == Len(ret.statements)
            isPrimary(s) == "op" \in DOMAIN s /\ s.op = "primary"
            added == {ret.statements[i].name : i \in 1..(n - 1)}
        IN  /\ n >= 1
            /\ isPrimary(ret.statements[n])
            /\ \A i \in 1..(n - 1) : ~isPrimary(ret.statements[i])
            /\ ret.statements[n].columns = FlaggedPrimaryKey(arg.definition)
            /\ \A k \in DOMAIN ret.statements[n].columns :
                   ret.statements[n].columns[k] \in added

\* C10: for a registered connection, a table of its schema and well-formed
\* criteria, the root query of a join is compiled without error and is
\* grouped by the root table's primary key, the value Adapter.getPrimaryKey
\* returns for that connection and table; it carries the root ORDER BY.
C10_JoinGroupsByPrimaryKey ==
    op = "buildKnexJoin" =>
        LET cxn == connections[arg.connectionName] IN
        /\ ~ret.threw
        /\ ret.query.from = arg.tableName
        /\ ret.query.groupBy =
               <<arg.tableName, getPrimaryKey(cxn, arg.tableName).pk.name>>
        /\ ret.query.orderBy = buildOrderByClause(arg.tableName, arg.options)


\* C11: after any sequence of getPrimaryKey calls over the tables of a
\* connection, every call for a table returns the name of the first
\* attribute of the table flagged primaryKey, or 'id' when it declares none,
\* and the value cached for a table (definition._pk), once present, is that
\* same name: it never changes and every later call returns it.
C11_PrimaryKeyMemoized ==
    /\ (op = "getPrimaryKey" /\ ~ret.threw) =>
           ret.pk = Name(DeclaredPrimaryKey(arg.tableName))
    /\ \A i \in Identities :
           connections[i].t = "cxn" =>
               \A tn \in Tables :
                   \/ connections[i].collections[tn]._pk = Undefined
                   \/ connections[i].collections[tn]._pk = Name(DeclaredPrimaryKey(tn))

\* getPrimaryKey has answered for the table with two flagged attributes
\* while the keys of all three tables are cached: calls for several tables
\* have been made, for a table with a flagged key and for one without
C11_Witness ==
    /\ op = "getPrimaryKey"
    /\ arg.tableName = "posts"
    /\ ret.pk = Name("slug")
    /\ \E i \in Identities :
          /\ connections[i].t = "cxn"
          /\ connections[i].collections["users"]._pk = Name("id")
          /\ connections[i].collections["tags"]._pk = Name("id")
          /\ connections[i].collections["posts"]._pk = Name("slug")

\* the connections a teardown call is aimed at: the named one, or every
\* connection of the registry when no name is given
Targeted(call) ==
    IF call.conn.t = "string"
    THEN {c \in call.registered : c.identity = call.conn.name}
    ELSE call.registered

\* C12: when teardown completes successfully, in each call form (a named
\* connection with a callback, all connections with a callback, callback
\* only), no driver pool of a targeted connection is left live and no
\* targeted connection is left in the registry, so that its identity can be
\* registered again; while a destroy call of the teardown is outstanding no
\* targeted connection has been removed from the registry.
C12_TeardownReleases ==
    /\ op = "teardown.then" =>
           \A c \in Targeted(arg) :
               /\ c.identity \notin Registered
               /\ knexPools[c.knex] = "destroyed"
    /\ (teardown.active /\ teardown.promises # {}) =>
           \A c \in Targeted(teardown.call) : c.identity \in Registered

\* C15: under every interleaving of registerConnection calls at most one
\* call per identity is on its way to completing successfully, no call is
\* waiting for an identity the registry already holds, a waiting call's
\* connection is not in the registry before its initialization succeeded,
\* and once every call has completed every live driver pool is the one the
\* registry holds under its identity.
C15_OneRegistrationPerIdentity ==
    /\ \A c, d \in Waiting : pending[c].identity = pending[d].identity => c = d
    /\ \A c \in Waiting : /\ pending[c].identity \notin Registered
                           /\ \A i \in Registered : PoolOf(i) # pending[c].knex
    /\ (Waiting = {} /\ ~teardown.active) =>
           \A p \in DOMAIN knexPools :
               knexPools[p] = "live" => \E i \in Registered : PoolOf(i) = p

\* the relations a reference inside the k-th lateral subquery can name beyond
\* the subquery's own table: the root table and the earlier lateral aliases
OuterRelations(root, joins, k) == <<root>> \o [j \in 1..(k - 1) |-> joins[j].alias]

\* C13: in the joins compiled for a query, the parent reference of each
\* correlated subquery names exactly one relation among the root table and
\* the aliases of the lateral subqueries attached earlier, it is not taken
\* by the subquery's own table, and no two lateral subqueries share an alias.
C13_ParentReferenceResolves ==
    op = "buildKnexJoinSubquery" =>
        \A k \in DOMAIN ret.joins :
            LET parent == ret.joins[k].subquery.correlation.parent[1]
                outer == OuterRelations(arg.tableName, ret.joins, k)
            IN  /\ parent # ret.joins[k].subquery.from
                /\ Cardinality({j \in DOMAIN outer : outer[j] = parent}) = 1
                /\ \A j \in 1..(k - 1) : ret.joins[j].alias # ret.joins[k].alias

\* the latest commitTransaction call was handed a parent transaction
ParentGiven == ~IsFalsy(commit.parentTransaction)

\* what holds of getTransaction and of the latest commitTransaction call
TransactionReused ==
    /\ (op = "getTransaction" /\ ~IsFalsy(arg.parentTransaction)) =>
           ret.resolved = arg.parentTransaction
    /\ commit.commits <= 1 /\ commit.cbs <= 1
    /\ ParentGiven => commit.commits = 0
    /\ commit.commits = 0 => commit.cbs = (IF commit.cb THEN 1 ELSE 0)
    /\ commit.commits = 1 =>
           /\ transactions[commit.transaction.id] = "committed" =>
                  commit.cbs = (IF commit.cb THEN 1 ELSE 0)
           /\ commit.cbs = 1 => transactions[commit.transaction.id] = "committed"

\* a call handed a parent transaction opens and commits no transaction
ParentTransactionKept ==
    (op' \in {"getTransaction", "commitTransaction"} /\ ~IsFalsy(arg'.parentTransaction))
        => transactions' = transactions

\* C14: an operation handed a parent transaction runs on that handle and
\* neither opens nor commits a transaction: getTransaction resolves with the
\* parent handle whenever one is supplied; commitTransaction commits only a
\* transaction that has no parent, once, and invokes the callback with the
\* result once and, when it commits, only after the commit has completed.
C14_ParentTransactionReused == []TransactionReused /\ [][ParentTransactionKept]_vars

\* commitTransaction was handed an open parent transaction as the handle to
\* commit: the callback has run and the transaction is still open
C14_Witness ==
    /\ op = "commitTransaction"
    /\ ParentGiven
    /\ commit.transaction = commit.parentTransaction
    /\ commit.cbs = 1
    /\ transactions[commit.parentTransaction.id] = "open"

\* the latest update call has completed towards its caller
UpdateCompleted ==
    IF update.cb THEN update.cbs = 1 ELSE update.promise \in {"fulfilled", "rejected"}

\* C16: every call to Adapter.update eventually completes towards its
\* caller, with empty data too: the callback, when there is one, is invoked
\* and never more than once, and without a callback the promise update
\* returned eventually settles.
C16_UpdateCompletes ==
    /\ [](update.cbs <= 1)
    /\ (update.stage # "none") ~> UpdateCompleted

====
